---- MODULE Spec2Model ----
(***************************************************************************)
(* Model of src/src/App.tsx: the host controller (React component App),    *)
(* the Renderer (the iframe and the document it shows) and the editor      *)
(* script that injectScript places in that document.                       *)
(*                                                                         *)
(* Abstractions, all on the side of the environment:                       *)
(*  - a document is one of four kinds: about:blank, the same-origin page,  *)
(*    a cross-origin page, or markup written with document.write;          *)
(*  - a document holds at most the elements body > d1; html, head and the  *)
(*    script element are no event targets;                                 *)
(*  - the transient "Click any element to edit" indicator and its style    *)
(*    element (lines 211-244) are decoration and are left out;             *)
(*  - a navigation commits in the step that starts it; its load event is   *)
(*    a later step;                                                        *)
(*  - a change of the src binding (line 461), its removal included,        *)
(*    navigates the mounted iframe; a change of key re-mounts it;          *)
(*  - timers fire in any order (the user acts at arbitrary times).         *)
(***************************************************************************)
EXTENDS Integers, Sequences, FiniteSets, TLC

\* ------------------------------------------------------------------ bounds
MaxKey == 1        \* loads that assign a new Renderer identity
MaxLog == 2        \* entries of the change log
MaxQueue == 2      \* messages in flight, per direction
MaxTimers == 1     \* pending timers, per kind
MaxScripts == 2    \* listener sets alive in one document

\* --------------------------------------------------------------- constants
Arrow == "→"
SelOutline == "3px solid #2563eb"
SelBackground == "rgba(37, 99, 235, 0.1)"
HoverOutline == "2px dashed #64748b"
NoEl == "null"

\* Typed sources are sequences of characters; a non-blank token stands for
\* a run of characters that are not white space.
SameUrl == <<"/test-page.html">>
CrossUrl == <<"https://example.com">>
Markup == <<"<div class=\"a\">hi</div>">>
Urls == {<< >>, <<" ">>, SameUrl, CrossUrl}
HtmlContents == {<< >>, <<" ">>, Markup}
NewTexts == {"bye"}
NewClasses == {<<"b">>}

\* ------------------------------------------------------------ the document
El == {"body", "d1"}
Parent(e) == CASE e = "body" -> NoEl
               [] e = "d1" -> "body"
TagName(e) == CASE e = "body" -> "body"
                [] e = "d1" -> "div"
ElId(e) == ""
\* The child element of an element.
Child(e) == CASE e = "body" -> "d1"
              [] e = "d1" -> NoEl

RECURSIVE IsAncestor(_, _)
IsAncestor(a, e) == /\ e # NoEl
                    /\ Parent(e) # NoEl
                    /\ (Parent(e) = a \/ IsAncestor(a, Parent(e)))

\* The elements a document of each kind holds when it is created.
DocEls(kind) == CASE kind = "blank" -> {"body"}
                  [] kind = "page" -> {"body", "d1"}
                  [] kind = "markup" -> {"body", "d1"}
                  [] kind = "cross" -> {}

\* The page styles its div inline; the markup <div class="a">hi</div> does not.
FreshEl(kind, e) ==
    [text |-> IF e = "d1" THEN "hi" ELSE "",
     cls |-> IF e = "d1" THEN <<"a">> ELSE << >>,
     outline |-> IF e = "d1" /\ kind = "page" THEN "1px solid red" ELSE "",
     bg |-> IF e = "d1" /\ kind = "page" THEN "yellow" ELSE "",
     editable |-> FALSE,
     attached |-> e \in DocEls(kind)]

FreshDom(kind) == [e \in El |-> FreshEl(kind, e)]

\* ------------------------------------------------------- the editor script
\* The closure variables of one run of the injected function.
InitScript == [selectedEl |-> NoEl,
               originalOutline |-> "",
               originalBackground |-> "",
               hoverEl |-> NoEl,
               originalHoverOutline |-> ""]

ScriptSource == "(function() { ... })();"

RECURSIVE StrOf(_)
StrOf(cs) == IF cs = << >> THEN "" ELSE Head(cs) \o StrOf(Tail(cs))

\* s.split(' ').join('.'): every space becomes a dot.
SplitJoin(cs) == [i \in 1..Len(cs) |-> IF cs[i] = " " THEN "." ELSE cs[i]]

\* document.body
DocBody(d) == IF d["body"].attached THEN "body" ELSE NoEl

RECURSIVE InnerText(_, _)
InnerText(d, e) ==
    IF e = NoEl \/ ~d[e].attached THEN ""
    ELSE d[e].text \o InnerText(d, Child(e))

\* textContent also holds the source of the script element under body.
TextContent(d, tag, e) ==
    IF e = "body" /\ tag /\ d["body"].attached
    THEN InnerText(d, e) \o ScriptSource
    ELSE InnerText(d, e)

\* tagName.toLowerCase() for the tag names in use.
LowerCase(t) == CASE t = "DIV" -> "div"
                  [] t = "P" -> "p"
                  [] t = "BODY" -> "body"
                  [] t = "HTML" -> "html"
                  [] OTHER -> t

\* Lines 145-147 for a node given by its tag name, id and class attribute.
NodeSelector(n) ==
    LowerCase(n.tagName)
    \o (IF n.id # "" THEN "#" \o n.id ELSE "")
    \o (IF n.className # << >> THEN "." \o StrOf(SplitJoin(n.className))
        ELSE "")

Selector(d, e) ==
    NodeSelector([tagName |-> TagName(e), id |-> ElId(e),
                  className |-> d[e].cls, body |-> FALSE])

RECURSIVE PathSegments(_, _)
PathSegments(d, e) ==
    IF e = NoEl \/ e = DocBody(d) THEN << >>
    ELSE Append(PathSegments(d, Parent(e)), Selector(d, e))

RECURSIVE JoinPath(_)
JoinPath(segs) ==
    IF segs = << >> THEN ""
    ELSE IF Len(segs) = 1 THEN segs[1]
    ELSE segs[1] \o " > " \o JoinPath(Tail(segs))

GetElementPath(d, el) == JoinPath(PathSegments(d, el))

\* The same walk (lines 143-151) over an element given with its ancestors:
\* chain[1] is the element, chain[i + 1] the parentElement of chain[i], and
\* the parentElement of the last one is null.
RECURSIVE ChainSegments(_)
ChainSegments(chain) ==
    IF chain = << >> \/ Head(chain).body THEN << >>
    ELSE Append(ChainSegments(Tail(chain)), NodeSelector(Head(chain)))

PathOfChain(chain) == JoinPath(ChainSegments(chain))

\* Lines 111-115 and 193-195: the selected element gets back the captured
\* outline and background and stops being editable.
RevertSelection(d, s) ==
    IF s.selectedEl = NoEl THEN d
    ELSE [d EXCEPT ![s.selectedEl].outline = s.originalOutline,
                   ![s.selectedEl].bg = s.originalBackground,
                   ![s.selectedEl].editable = FALSE]

\* Lines 182-185.
ClearHover(d, s) ==
    IF s.hoverEl = NoEl THEN [dom |-> d, s |-> s]
    ELSE [dom |-> [d EXCEPT ![s.hoverEl].outline = s.originalHoverOutline],
          s |-> [s EXCEPT !.hoverEl = NoEl]]

SelectedMsg(d, tag, el) ==
    [type |-> "ELEMENT_SELECTED",
     text |-> IF InnerText(d, el) # "" THEN InnerText(d, el)
              ELSE TextContent(d, tag, el),
     classes |-> d[el].cls,
     path |-> GetElementPath(d, el)]

EscapeMsg == [type |-> "ESCAPE_PRESSED", text |-> "", classes |-> << >>,
              path |-> ""]

SelectElement(d, tag, s, el) ==
    LET d1 == RevertSelection(d, s)
        s2 == [s EXCEPT !.selectedEl = el,
                        !.originalOutline = d1[el].outline,
                        !.originalBackground = d1[el].bg]
        d2 == [d1 EXCEPT ![el].outline = SelOutline,
                         ![el].bg = SelBackground,
                         ![el].editable = TRUE]
    IN [dom |-> d2, s |-> s2, out |-> <<SelectedMsg(d2, tag, el)>>]

OnMouseOver(d, s, t) ==
    IF t # s.selectedEl /\ t # s.hoverEl
    THEN LET d1 == IF s.hoverEl # NoEl /\ s.hoverEl # s.selectedEl
                   THEN [d EXCEPT ![s.hoverEl].outline = s.originalHoverOutline]
                   ELSE d
         IN [dom |-> [d1 EXCEPT ![t].outline = HoverOutline],
             s |-> [s EXCEPT !.hoverEl = t,
                             !.originalHoverOutline = d1[t].outline],
             out |-> << >>]
    ELSE [dom |-> d, s |-> s, out |-> << >>]

OnMouseOut(d, s) ==
    IF s.hoverEl # NoEl /\ s.hoverEl # s.selectedEl
    THEN [dom |-> [d EXCEPT ![s.hoverEl].outline = s.originalHoverOutline],
          s |-> [s EXCEPT !.hoverEl = NoEl],
          out |-> << >>]
    ELSE [dom |-> d, s |-> s, out |-> << >>]

\* A faulty variant of OnClick: the hover target is not cleared.
OnClickKeepingHover(d, tag, s, t) == SelectElement(d, tag, s, t)

OnClick(d, tag, s, t) ==
    LET h == ClearHover(d, s)
    IN SelectElement(h.dom, tag, h.s, t)

OnEscape(d, s) ==
    IF s.selectedEl # NoEl
    THEN [dom |-> RevertSelection(d, s),
          s |-> [s EXCEPT !.selectedEl = NoEl],
          out |-> <<EscapeMsg>>]
    ELSE [dom |-> d, s |-> s, out |-> << >>]

\* el.innerText = text: the children of el leave the document.
SetInnerText(d, el, text) ==
    [e \in El |-> IF e = el THEN [d[e] EXCEPT !.text = text]
                  ELSE IF IsAncestor(el, e) THEN [d[e] EXCEPT !.attached = FALSE]
                  ELSE d[e]]

\* A faulty variant of UpdateTarget: falls back to the hovered element.
UpdateTargetOrHover(s) ==
    IF s.selectedEl # NoEl THEN s.selectedEl ELSE s.hoverEl

UpdateTarget(s) == s.selectedEl

OnMessage(d, s, m) ==
    LET el == UpdateTarget(s)
    IN IF el = NoEl THEN [dom |-> d, s |-> s, out |-> << >>]
       ELSE [dom |-> IF m.type = "UPDATE_TEXT" THEN SetInnerText(d, el, m.text)
                     ELSE IF m.type = "UPDATE_CLASSES"
                          THEN [d EXCEPT ![el].cls = m.classes]
                          ELSE d,
             s |-> s, out |-> << >>]

\* One listener set's handler for event ev.
Handle(d, tag, s, ev) ==
    CASE ev.type = "mouseover" -> OnMouseOver(d, s, ev.target)
      [] ev.type = "mouseout" -> OnMouseOut(d, s)
      [] ev.type = "click" -> OnClick(d, tag, s, ev.target)
      [] ev.type = "escape" -> OnEscape(d, s)
      [] ev.type = "message" -> OnMessage(d, s, ev.data)

\* The listener sets of the document run in the order they were added.
RECURSIVE Dispatch(_, _, _, _, _)
Dispatch(d, tag, ss, ev, i) ==
    IF i > Len(ss) THEN [dom |-> d, scripts |-> ss, out |-> << >>]
    ELSE LET r == Handle(d, tag, ss[i], ev)
             rest == Dispatch(r.dom, tag, [ss EXCEPT ![i] = r.s], ev, i + 1)
         IN [rest EXCEPT !.out = r.out \o rest.out]

\* ---------------------------------------------------------------- the state
VARIABLES
    url, iframeKey, selectedElement, editingText, tailwindClasses,
    codeChanges, mode, htmlContent, modifiedHtml,   \* useState, lines 11-19
    docKind, dom, scriptTag, scripts, loadPending,  \* the mounted iframe
    toFrame, toHost,                                \* postMessage, in flight
    injectTimers, extractTimers, writeTimers,       \* setTimeout, pending
    pathCall                                        \* a call of getElementPath

hostVars == <<url, iframeKey, selectedElement, editingText, tailwindClasses,
              codeChanges, mode, htmlContent, modifiedHtml>>
frameVars == <<docKind, dom, scriptTag, scripts, loadPending>>
timerVars == <<injectTimers, extractTimers, writeTimers>>
vars == <<hostVars, frameVars, toFrame, toHost, timerVars, pathCall>>

NoSelection == [set |-> FALSE, originalText |-> "", path |-> ""]

\* String.prototype.trim on a sequence of characters.
RECURSIVE TrimLeft(_)
TrimLeft(cs) == IF cs # << >> /\ Head(cs) = " " THEN TrimLeft(Tail(cs)) ELSE cs
RECURSIVE TrimRight(_)
TrimRight(cs) == IF cs # << >> /\ cs[Len(cs)] = " "
                 THEN TrimRight(SubSeq(cs, 1, Len(cs) - 1)) ELSE cs
Trim(cs) == TrimRight(TrimLeft(cs))

\* The document the iframe shows for a value of its src attribute.
DocKindFor(u) == IF Trim(u) = << >> THEN "blank"
                 ELSE IF u = SameUrl THEN "page" ELSE "cross"

\* line 461: src={mode === 'url' ? url : undefined}
IframeSrc(m, u) == IF m = "url" THEN u ELSE << >>

\* documentElement.outerHTML: the attached elements with their text, class
\* and inline style, and the injected script element.
EmptyHtml == [kind |-> "empty", raw |-> << >>, tag |-> FALSE,
              els |-> [e \in El |-> [FreshEl("cross", e) EXCEPT !.text = ""]]]
RawHtml(h) == [EmptyHtml EXCEPT !.kind = "raw", !.raw = h]
OuterHTML(d, tag) ==
    [kind |-> "dom", raw |-> << >>, tag |-> tag,
     els |-> [e \in El |-> IF d[e].attached THEN d[e]
                           ELSE [FreshEl("cross", e) EXCEPT !.text = ""]]]

InitApp ==
    /\ url = SameUrl
    /\ iframeKey = 0
    /\ selectedElement = NoSelection
    /\ editingText = ""
    /\ tailwindClasses = << >>
    /\ codeChanges = << >>
    /\ mode = "url"
    /\ htmlContent = << >>
    /\ modifiedHtml = EmptyHtml
    /\ docKind = DocKindFor(SameUrl)
    /\ dom = FreshDom(DocKindFor(SameUrl))
    /\ scriptTag = FALSE
    /\ scripts = << >>
    /\ loadPending = TRUE
    /\ toFrame = << >>
    /\ toHost = << >>
    /\ injectTimers = 0
    /\ extractTimers = 0
    /\ writeTimers = << >>

\* No call of getElementPath outside the listeners is under way.
NoCall == [chain |-> << >>, result |-> "", done |-> FALSE]

Init == InitApp /\ pathCall = NoCall

\* The iframe shows a new document: the old one, its listeners and the
\* messages posted to its window are gone; a load event will follow.
Navigate(kind) ==
    /\ docKind' = kind
    /\ dom' = FreshDom(kind)
    /\ scriptTag' = FALSE
    /\ scripts' = << >>
    /\ toFrame' = << >>
    /\ loadPending' = TRUE

\* ------------------------------------------------------------ host actions
SetUrl(u) ==
    /\ UNCHANGED pathCall
    /\ mode = "url"
    /\ u # url
    /\ url' = u
    /\ Navigate(DocKindFor(u))
    /\ UNCHANGED <<iframeKey, selectedElement, editingText, tailwindClasses,
                   codeChanges, mode, htmlContent, modifiedHtml, toHost,
                   timerVars>>

SetMode(m) ==
    /\ UNCHANGED pathCall
    /\ m # mode
    /\ mode' = m
    /\ Navigate(DocKindFor(IframeSrc(m, url)))
    /\ UNCHANGED <<url, iframeKey, selectedElement, editingText,
                   tailwindClasses, codeChanges, htmlContent, modifiedHtml,
                   toHost, timerVars>>

SetHtmlContent(h) ==
    /\ UNCHANGED pathCall
    /\ mode = "html"
    /\ h # htmlContent
    /\ htmlContent' = h
    /\ UNCHANGED <<url, iframeKey, selectedElement, editingText,
                   tailwindClasses, codeChanges, mode, modifiedHtml,
                   frameVars, toFrame, toHost, timerVars>>

\* A faulty variant of LoadIframe: the reload keeps the change log.
LoadIframeKeepingLog ==
    /\ UNCHANGED pathCall
    /\ mode = "url"
    /\ IF url = << >> /\ mode = "url" THEN UNCHANGED vars
       ELSE /\ iframeKey < MaxKey
            /\ iframeKey' = iframeKey + 1
            /\ selectedElement' = NoSelection
            /\ Navigate(DocKindFor(IframeSrc(mode, url)))
            /\ UNCHANGED <<url, editingText, tailwindClasses, codeChanges,
                           mode, htmlContent, modifiedHtml, toHost, timerVars>>

\* line 49
LoadIframeSkips == url = << >> /\ mode = "url"

LoadIframe ==
    /\ UNCHANGED pathCall
    /\ mode = "url"
    /\ IF LoadIframeSkips THEN UNCHANGED vars
       ELSE /\ iframeKey < MaxKey
            /\ iframeKey' = iframeKey + 1
            /\ selectedElement' = NoSelection
            /\ codeChanges' = << >>
            /\ Navigate(DocKindFor(IframeSrc(mode, url)))
            /\ UNCHANGED <<url, editingText, tailwindClasses, mode,
                           htmlContent, modifiedHtml, toHost, timerVars>>

\* line 57
LoadHtmlSkips == Trim(htmlContent) = << >>

LoadHtmlContent ==
    /\ UNCHANGED pathCall
    /\ mode = "html"
    /\ IF LoadHtmlSkips THEN UNCHANGED vars
       ELSE /\ iframeKey < MaxKey
            /\ Len(writeTimers) < MaxTimers
            /\ iframeKey' = iframeKey + 1
            /\ selectedElement' = NoSelection
            /\ codeChanges' = << >>
            /\ modifiedHtml' = RawHtml(htmlContent)
            \* the timer keeps the iframe element of before the re-render
            /\ writeTimers' = Append(writeTimers,
                                     [iframe |-> iframeKey, html |-> htmlContent])
            /\ Navigate(DocKindFor(IframeSrc(mode, url)))
            /\ UNCHANGED <<url, editingText, tailwindClasses, mode,
                           htmlContent, toHost, injectTimers, extractTimers>>

\* lines 68-84: the timer of loadHtmlContent. The iframe element it kept
\* has a document only while that element is still the mounted one.
WriteHtml(t) ==
    IF t.iframe = iframeKey /\ docKind # "cross"
    THEN /\ docKind' = "markup"
         /\ dom' = FreshDom("markup")
         /\ scriptTag' = FALSE
         /\ scripts' = << >>
         /\ injectTimers' = injectTimers + 1
         /\ UNCHANGED <<loadPending>>
    ELSE UNCHANGED <<frameVars, injectTimers>>

WriteTimerFires ==
    \E i \in 1..Len(writeTimers) :
        /\ writeTimers' = SubSeq(writeTimers, 1, i - 1)
                          \o SubSeq(writeTimers, i + 1, Len(writeTimers))
        /\ WriteHtml(writeTimers[i])
        /\ UNCHANGED <<hostVars, toFrame, toHost, extractTimers, pathCall>>

\* lines 88-252
InjectScript ==
    IF docKind = "cross" THEN UNCHANGED frameVars
    ELSE IF DocBody(dom) = NoEl
         THEN scriptTag' = FALSE /\ UNCHANGED <<docKind, dom, scripts, loadPending>>
         ELSE /\ Len(scripts) < MaxScripts
              /\ scripts' = Append(scripts, InitScript)
              /\ scriptTag' = TRUE
              /\ UNCHANGED <<docKind, dom, loadPending>>

InjectTimerFires ==
    /\ UNCHANGED pathCall
    /\ injectTimers > 0
    /\ injectTimers' = injectTimers - 1
    /\ InjectScript
    /\ UNCHANGED <<hostVars, toFrame, toHost, extractTimers, writeTimers>>

\* lines 259-263: handleLoad
LoadEvent ==
    /\ UNCHANGED pathCall
    /\ loadPending
    /\ injectTimers < MaxTimers
    /\ loadPending' = FALSE
    /\ injectTimers' = injectTimers + 1
    /\ UNCHANGED <<hostVars, docKind, dom, scriptTag, scripts, toFrame,
                   toHost, extractTimers, writeTimers>>

\* Whether reading the iframe's document gives one (lines 336-337).
DocReadable == docKind # "cross"

\* A faulty variant of UpdateModifiedHtml: a failed read empties the snapshot.
UpdateModifiedHtmlOrClear ==
    IF DocReadable THEN modifiedHtml' = OuterHTML(dom, scriptTag)
    ELSE modifiedHtml' = EmptyHtml

\* lines 333-343
UpdateModifiedHtml ==
    IF DocReadable THEN modifiedHtml' = OuterHTML(dom, scriptTag)
    ELSE modifiedHtml' = modifiedHtml

ExtractTimerFires ==
    /\ UNCHANGED pathCall
    /\ extractTimers > 0
    /\ extractTimers' = extractTimers - 1
    /\ UpdateModifiedHtml
    /\ UNCHANGED <<url, iframeKey, selectedElement, editingText,
                   tailwindClasses, codeChanges, mode, htmlContent,
                   frameVars, toFrame, toHost, injectTimers, writeTimers>>

\* lines 346-364: copyModifiedHtml. The clipboard, the alert and the window
\* of the fallback are outside the state of the component.
CopyModifiedHtml ==
    /\ modifiedHtml.kind # "empty"
    /\ UNCHANGED vars

\* A faulty variant of ReceiveFromFrame: ESCAPE_PRESSED leaves the edit
\* buffers as they are.
ReceiveFromFrameKeepingBuffers ==
    /\ UNCHANGED pathCall
    /\ toHost # << >>
    /\ toHost' = Tail(toHost)
    /\ LET m == Head(toHost)
       IN IF m.type = "ELEMENT_SELECTED"
          THEN /\ editingText' = m.text
               /\ tailwindClasses' = m.classes
               /\ selectedElement' = [set |-> TRUE, originalText |-> m.text,
                                      path |-> m.path]
          ELSE /\ selectedElement' = NoSelection
               /\ UNCHANGED <<editingText, tailwindClasses>>
    /\ UNCHANGED <<url, iframeKey, codeChanges, mode, htmlContent,
                   modifiedHtml, frameVars, toFrame, timerVars>>

\* A faulty variant of ReceiveFromFrame: a new selection starts a new log.
ReceiveFromFrameNewLog ==
    /\ UNCHANGED pathCall
    /\ toHost # << >>
    /\ toHost' = Tail(toHost)
    /\ LET m == Head(toHost)
       IN IF m.type = "ELEMENT_SELECTED"
          THEN /\ editingText' = m.text
               /\ tailwindClasses' = m.classes
               /\ selectedElement' = [set |-> TRUE, originalText |-> m.text,
                                      path |-> m.path]
               /\ codeChanges' = << >>
          ELSE /\ selectedElement' = NoSelection
               /\ editingText' = ""
               /\ tailwindClasses' = << >>
               /\ codeChanges' = codeChanges
    /\ UNCHANGED <<url, iframeKey, mode, htmlContent,
                   modifiedHtml, frameVars, toFrame, timerVars>>

\* lines 271-286: handleMessage
ReceiveFromFrame ==
    /\ UNCHANGED pathCall
    /\ toHost # << >>
    /\ toHost' = Tail(toHost)
    /\ LET m == Head(toHost)
       IN IF m.type = "ELEMENT_SELECTED"
          THEN /\ editingText' = m.text
               /\ tailwindClasses' = m.classes
               /\ selectedElement' = [set |-> TRUE, originalText |-> m.text,
                                      path |-> m.path]
          ELSE /\ selectedElement' = NoSelection
               /\ editingText' = ""
               /\ tailwindClasses' = << >>
    /\ UNCHANGED <<url, iframeKey, codeChanges, mode, htmlContent,
                   modifiedHtml, frameVars, toFrame, timerVars>>

\* `${selectedElement?.originalText}` and `${selectedElement?.path}`
OriginalTextOf(sel) == IF sel.set THEN sel.originalText ELSE "undefined"
PathOf(sel) == IF sel.set THEN sel.path ELSE "undefined"

\* A faulty variant of TextChange: the old text is that of the text box.
TextChangeRecaptured(sel, newText) ==
    "Text changed: \"" \o editingText \o "\" " \o Arrow \o " \""
    \o newText \o "\""

\* A faulty variant of ClassChange: the path is computed again from the
\* document as it is now.
ClassChangeRecomputed(sel, newClasses) ==
    "Classes updated: \"" \o StrOf(newClasses) \o "\" on "
    \o (IF Len(scripts) > 0 /\ scripts[1].selectedEl # NoEl
        THEN GetElementPath(dom, scripts[1].selectedEl)
        ELSE PathOf(sel))

\* line 302
TextChange(sel, newText) ==
    "Text changed: \"" \o OriginalTextOf(sel) \o "\" " \o Arrow \o " \""
    \o newText \o "\""

\* line 322
ClassChange(sel, newClasses) ==
    "Classes updated: \"" \o StrOf(newClasses) \o "\" on " \o PathOf(sel)

\* lines 306-308 and 326-328
ScheduleExtract ==
    IF mode = "html"
    THEN extractTimers < MaxTimers /\ extractTimers' = extractTimers + 1
    ELSE extractTimers' = extractTimers

\* lines 293-310; the text box exists only while there is a selection
\* (line 469).
UpdateText(newText) ==
    /\ UNCHANGED pathCall
    /\ selectedElement.set
    /\ Len(codeChanges) < MaxLog
    /\ Len(toFrame) < MaxQueue
    /\ editingText' = newText
    /\ toFrame' = Append(toFrame, [type |-> "UPDATE_TEXT", text |-> newText,
                                   classes |-> << >>])
    /\ codeChanges' = Append(codeChanges, TextChange(selectedElement, newText))
    /\ ScheduleExtract
    /\ UNCHANGED <<url, iframeKey, selectedElement, tailwindClasses, mode,
                   htmlContent, modifiedHtml, frameVars, toHost,
                   injectTimers, writeTimers>>

\* lines 313-330
UpdateClasses(newClasses) ==
    /\ UNCHANGED pathCall
    /\ selectedElement.set
    /\ Len(codeChanges) < MaxLog
    /\ Len(toFrame) < MaxQueue
    /\ tailwindClasses' = newClasses
    /\ toFrame' = Append(toFrame, [type |-> "UPDATE_CLASSES", text |-> "",
                                   classes |-> newClasses])
    /\ codeChanges' = Append(codeChanges,
                             ClassChange(selectedElement, newClasses))
    /\ ScheduleExtract
    /\ UNCHANGED <<url, iframeKey, selectedElement, editingText, mode,
                   htmlContent, modifiedHtml, frameVars, toHost,
                   injectTimers, writeTimers>>

\* ----------------------------------------------- events inside the Renderer
\* An event of the document, handled by every listener set in it.
FrameEvent(ev) ==
    LET r == Dispatch(dom, scriptTag, scripts, ev, 1)
    IN /\ Len(toHost) + Len(r.out) <= MaxQueue
       /\ dom' = r.dom
       /\ scripts' = r.scripts
       /\ toHost' = toHost \o r.out
       /\ UNCHANGED <<hostVars, docKind, loadPending, timerVars, pathCall>>

MouseOver(e) ==
    /\ dom[e].attached
    /\ FrameEvent([type |-> "mouseover", target |-> e])
    /\ UNCHANGED <<scriptTag, toFrame>>

MouseOut ==
    /\ FrameEvent([type |-> "mouseout"])
    /\ UNCHANGED <<scriptTag, toFrame>>

Click(e) ==
    /\ dom[e].attached
    /\ FrameEvent([type |-> "click", target |-> e])
    /\ UNCHANGED <<scriptTag, toFrame>>

EscapeKey ==
    /\ FrameEvent([type |-> "escape"])
    /\ UNCHANGED <<scriptTag, toFrame>>

\* The script element is a child of body: it goes with body's children.
TagAfterMessage(m) ==
    /\ scriptTag
    /\ ~(m.type = "UPDATE_TEXT"
         /\ \E i \in 1..Len(scripts) : scripts[i].selectedEl = "body")

\* lines 202-209: a posted message reaches the window of the document.
DeliverToFrame ==
    /\ UNCHANGED pathCall
    /\ toFrame # << >>
    /\ toFrame' = Tail(toFrame)
    /\ FrameEvent([type |-> "message", data |-> Head(toFrame)])
    /\ scriptTag' = TagAfterMessage(Head(toFrame))

\* What happens without the user in address mode: the load event, its
\* injection timer, message delivery.
FrameSteps ==
    \/ InjectTimerFires
    \/ LoadEvent
    \/ ReceiveFromFrame
    \/ DeliverToFrame

\* The same with the timers that only raw-markup mode sets.
Internal ==
    \/ FrameSteps
    \/ WriteTimerFires
    \/ ExtractTimerFires

Pointer ==
    \/ \E e \in El : MouseOver(e)
    \/ MouseOut

Edits ==
    \/ \E t \in NewTexts : UpdateText(t)
    \/ \E c \in NewClasses : UpdateClasses(c)

\* One user in front of the page in address mode: pointer, keyboard, the
\* edit boxes and the Load Site button.
Next ==
    \/ FrameSteps
    \/ Pointer
    \/ \E e \in El : Click(e)
    \/ EscapeKey
    \/ Edits
    \/ LoadIframe

Spec == Init /\ [][Next]_vars

\* A user who types addresses and markup, switches modes and loads, and
\* selects and edits the page's div.
NextLoad ==
    \/ Internal
    \/ Click("d1")
    \/ \E t \in NewTexts : UpdateText(t)
    \/ \E u \in Urls : SetUrl(u)
    \/ \E m \in {"url", "html"} : SetMode(m)
    \/ \E h \in HtmlContents : SetHtmlContent(h)
    \/ LoadIframe
    \/ LoadHtmlContent
    \/ CopyModifiedHtml

SpecLoad == Init /\ [][NextLoad]_vars

\* A user who goes to raw-markup mode and stays there.
NextHtml ==
    \/ Internal
    \/ \E e \in El : Click(e)
    \/ Edits
    \/ SetMode("html")
    \/ \E h \in HtmlContents : SetHtmlContent(h)
    \/ LoadHtmlContent

SpecHtml == Init /\ [][NextHtml]_vars

\* ------------------------------------------------- getElementPath by itself
MaxDepth == 2      \* elements between the target and body, target included

ClassNames == {<< >>, <<"a">>, <<"a", " ", "b">>, <<"a", " ", " ", "b">>}
Nodes == [tagName : {"DIV", "P"}, id : {"", "main"}, className : ClassNames,
          body : {FALSE}]
BodyNode == [tagName |-> "BODY", id |-> "", className |-> << >>, body |-> TRUE]
HtmlNode == [tagName |-> "HTML", id |-> "", className |-> << >>, body |-> FALSE]

\* Elements with their ancestors: inside a document (below body, or body or
\* html themselves) or in a subtree that is not attached to one.
Chains ==
    LET below == UNION {[1..n -> Nodes] : n \in 0..MaxDepth}
    IN {c \o <<BodyNode, HtmlNode>> : c \in below}
       \cup below \cup {<<HtmlNode>>}

InitPath ==
    /\ InitApp
    /\ pathCall \in {[chain |-> c, result |-> "", done |-> FALSE] : c \in Chains}

GetElementPathCall ==
    /\ ~pathCall.done
    /\ pathCall' = [pathCall EXCEPT !.result = PathOfChain(pathCall.chain),
                                    !.done = TRUE]
    /\ UNCHANGED <<hostVars, frameVars, toFrame, toHost, timerVars>>

NextPath == GetElementPathCall

SpecPath == InitPath /\ [][NextPath]_vars

\* ------------------------------------------------------------------ claims
Marked(d, e) == /\ d[e].editable
                /\ d[e].outline = SelOutline
                /\ d[e].bg = SelBackground

SelectedBy(e) == {i \in 1..Len(scripts) : scripts[i].selectedEl = e}

\* A click on e2 while a listener set has e1 selected leaves e1 not editable,
\* with the outline and background that listener set captured for e1.
C1_ClickReverts ==
    \A e1 \in El, e2 \in El :
        (e1 # e2 /\ Click(e2) /\ SelectedBy(e1) # {}) =>
            /\ ~dom'[e1].editable
            /\ \E i \in SelectedBy(e1) :
                   /\ dom'[e1].outline = scripts[i].originalOutline
                   /\ dom'[e1].bg = scripts[i].originalBackground

\* C1: at most one element is marked selected (editable, with the selection
\* outline and background) in every state; and a click on el2 while el1 is
\* selected resets el1's outline and background to the values captured when
\* el1 was selected and turns its editability off.
C1_OneSelected ==
    /\ [](Cardinality({e \in El : Marked(dom, e)}) <= 1)
    /\ [][C1_ClickReverts]_vars

\* C2: when the escape key is pressed while an element is selected, the
\* element afterwards has the outline and background it had before any
\* hover or selection styling (those of the document as loaded) and is not
\* editable.
C2_EscapeRestores ==
    [][\A e \in El :
          (EscapeKey /\ SelectedBy(e) # {}) =>
              /\ dom'[e].outline = FreshEl(docKind, e).outline
              /\ dom'[e].bg = FreshEl(docKind, e).bg
              /\ ~dom'[e].editable]_vars

\* C3: a text edit appends exactly one entry, Text changed: "<old>" → "<new>",
\* where <old> is the text the host took from the ELEMENT_SELECTED message of
\* the current selection; the edit leaves the selection record as it is, so
\* successive edits carry the same <old>.
C3_TextEntry ==
    [][/\ \A t \in NewTexts :
              UpdateText(t) =>
                  /\ selectedElement' = selectedElement
                  /\ codeChanges' =
                         Append(codeChanges,
                                "Text changed: \"" \o selectedElement.originalText
                                \o "\" → \"" \o t \o "\"")
       /\ (selectedElement'.set /\ selectedElement' # selectedElement) =>
              /\ toHost # << >>
              /\ Head(toHost).type = "ELEMENT_SELECTED"
              /\ selectedElement'.originalText = Head(toHost).text]_vars

\* Two text edits on one selection, the first already applied to the element:
\* both entries carry the text of selection time.
C3_Witness ==
    /\ codeChanges = <<"Text changed: \"hi\" → \"bye\"",
                       "Text changed: \"hi\" → \"bye\"">>
    /\ selectedElement.set
    /\ selectedElement.originalText = "hi"
    /\ dom["d1"].text = "bye"
    /\ Len(toFrame) = 1

\* C4: a class edit appends exactly one entry, Classes updated: "<new>" on
\* <path>, where <path> is the path the host received at selection time, also
\* after earlier class edits have changed the element's class attribute.
C4_ClassEntry ==
    [][/\ \A c \in NewClasses :
              UpdateClasses(c) =>
                  /\ selectedElement' = selectedElement
                  /\ codeChanges' =
                         Append(codeChanges,
                                "Classes updated: \"" \o StrOf(c) \o "\" on "
                                \o selectedElement.path)
       /\ (selectedElement'.set /\ selectedElement' # selectedElement) =>
              /\ toHost # << >>
              /\ Head(toHost).type = "ELEMENT_SELECTED"
              /\ selectedElement'.path = Head(toHost).path]_vars

\* Two class edits on one selection, the first already applied: the element
\* is div.b by now, the second entry still says div.a.
C4_Witness ==
    /\ codeChanges = <<"Classes updated: \"b\" on div.a",
                       "Classes updated: \"b\" on div.a">>
    /\ selectedElement.set
    /\ dom["d1"].cls = <<"b">>
    /\ GetElementPath(dom, "d1") = "div.b"
    /\ Len(toFrame) = 1

\* C5: a load with a non-blank address or non-blank markup leaves the log
\* empty and the host without selection, and gives the Renderer the next
\* instance identity, whatever the state before.
C5_LoadClears ==
    [][(\/ LoadIframe /\ Trim(url) # << >>
        \/ LoadHtmlContent /\ Trim(htmlContent) # << >>) =>
           /\ codeChanges' = << >>
           /\ selectedElement' = NoSelection
           /\ iframeKey' = iframeKey + 1]_vars

\* After a markup load that found a selection and a logged edit: the text box
\* still holds the edit, log and selection are gone.
C5_Witness ==
    /\ iframeKey = 1
    /\ mode = "html"
    /\ modifiedHtml.kind = "raw"
    /\ editingText = "bye"
    /\ codeChanges = << >>
    /\ ~selectedElement.set

\* C6: an UPDATE_TEXT or UPDATE_CLASSES message that reaches a listener set
\* without selection leaves that set's state (selection, hover target) as it
\* is; when no set has a selection the document and the messages to the host
\* are unchanged as well.
C6_UpdateWithoutSelection ==
    [][DeliverToFrame =>
           /\ Len(scripts') = Len(scripts)
           /\ \A i \in 1..Len(scripts) :
                  scripts[i].selectedEl = NoEl => scripts'[i] = scripts[i]
           /\ (\A i \in 1..Len(scripts) : scripts[i].selectedEl = NoEl) =>
                  /\ dom' = dom
                  /\ toHost' = toHost
                  /\ scriptTag' = scriptTag]_vars

\* An edit was logged and its message consumed by a hovering listener set
\* without selection: the document is as loaded but for the hover outline.
C6_Witness ==
    /\ iframeKey = 0
    /\ Len(codeChanges) >= 1
    /\ toFrame = << >>
    /\ Len(scripts) = 1
    /\ scripts[1].selectedEl = NoEl
    /\ scripts[1].hoverEl = "d1"
    /\ dom["d1"].outline = HoverOutline
    /\ dom["d1"].text = "hi"
    /\ dom["d1"].cls = <<"a">>

\* C7: an extraction that cannot read the Renderer's document leaves the
\* stored snapshot, the log and the selection exactly as they were.
C7_FailedExtractKeeps ==
    [][(ExtractTimerFires /\ docKind = "cross") =>
           /\ modifiedHtml' = modifiedHtml
           /\ codeChanges' = codeChanges
           /\ selectedElement' = selectedElement]_vars

\* An extraction is due against a cross-origin document while a snapshot of
\* an earlier extraction, a log and a selection are stored.
C7_Witness ==
    /\ extractTimers > 0
    /\ docKind = "cross"
    /\ modifiedHtml.kind = "dom"
    /\ Len(codeChanges) = 2
    /\ selectedElement.set

\* C8: a load whose address or markup is empty or only whitespace changes
\* nothing: instance identity, selection, log and snapshot keep their values
\* and no timer is scheduled.
C8_BlankLoadNoOp ==
    [][(\/ LoadIframe /\ Trim(url) = << >>
        \/ LoadHtmlContent /\ Trim(htmlContent) = << >>) =>
           UNCHANGED <<iframeKey, selectedElement, codeChanges, modifiedHtml,
                       timerVars>>]_vars

\* C9: once the timers of a markup load have run and the load event is
\* handled, the current Renderer instance holds the markup with the editor
\* script injected.
C9_MarkupArrives ==
    (/\ mode = "html"
     /\ iframeKey > 0
     /\ writeTimers = << >>
     /\ injectTimers = 0
     /\ ~loadPending) =>
        /\ docKind = "markup"
        /\ Len(scripts) >= 1

\* C10: in raw-markup mode after a load of the markup, when the log holds a
\* text edit "bye" and then a class edit "b" for the current selection, all
\* messages are delivered and the extraction has run, then the log is
\* Text changed: "hi" → "bye", Classes updated: "b" on div.a, and the snapshot
\* shows the div with class b and text bye.
C10_EndToEnd ==
    (/\ mode = "html"
     /\ iframeKey > 0
     /\ htmlContent = Markup
     /\ ~loadPending
     /\ toFrame = << >> /\ toHost = << >>
     /\ writeTimers = << >> /\ injectTimers = 0 /\ extractTimers = 0
     /\ selectedElement.set
     /\ codeChanges = <<TextChange(selectedElement, "bye"),
                        ClassChange(selectedElement, <<"b">>)>>) =>
        /\ codeChanges = <<"Text changed: \"hi\" → \"bye\"",
                           "Classes updated: \"b\" on div.a">>
        /\ modifiedHtml.kind = "dom"
        /\ modifiedHtml.els["d1"].attached
        /\ modifiedHtml.els["d1"].cls = <<"b">>
        /\ modifiedHtml.els["d1"].text = "bye"

\* C11: a timer that was set before a load and fires after it does nothing
\* to the new state. After a load and before the new document's load event
\* every pending injection timer is of before the load; while the log is
\* still empty after a load every pending extraction timer is of before it;
\* a write timer of an earlier markup load is of before the latest one when
\* its iframe is not the one that load replaced.
C11_StaleTimersNoOp ==
    [][/\ (InjectTimerFires /\ loadPending /\ iframeKey > 0) =>
              UNCHANGED <<dom, scripts, scriptTag>>
       /\ (ExtractTimerFires /\ iframeKey > 0 /\ codeChanges = << >>) =>
              modifiedHtml' = modifiedHtml
       /\ (WriteTimerFires
           /\ \A i \in 1..Len(writeTimers) :
                  writeTimers[i].iframe + 1 < iframeKey) =>
              UNCHANGED <<docKind, dom, scripts, scriptTag>>]_vars

\* C12: a message of the editor script that was posted before a load and
\* reaches the host after it leaves the host without selection and does not
\* fill the edit buffers. After a load and until a script is injected into
\* the new document, every message on its way to the host is of before the
\* load.
C12_StaleMessageIgnored ==
    [][(ReceiveFromFrame /\ iframeKey > 0 /\ scripts = << >>) =>
           /\ ~selectedElement'.set
           /\ editingText' \in {editingText, ""}
           /\ tailwindClasses' \in {tailwindClasses, << >>}]_vars

\* Whether sequence s is a prefix of sequence t.
IsPrefix(s, t) == Len(s) <= Len(t) /\ SubSeq(t, 1, Len(s)) = s

RECURSIVE ClassList(_, _)
ClassList(cs, cur) ==
    IF cs = << >> THEN (IF cur = "" THEN << >> ELSE <<cur>>)
    ELSE IF Head(cs) = " "
         THEN (IF cur = "" THEN << >> ELSE <<cur>>) \o ClassList(Tail(cs), "")
         ELSE ClassList(Tail(cs), cur \o Head(cs))

RECURSIVE Dotted(_)
Dotted(classes) ==
    IF classes = << >> THEN "" ELSE "." \o Head(classes) \o Dotted(Tail(classes))

\* tagname, then #id if there is an id, then .c for each class c.
ExpectedSegment(n) ==
    LowerCase(n.tagName) \o (IF n.id # "" THEN "#" \o n.id ELSE "")
    \o Dotted(ClassList(n.className, ""))

\* The elements of a chain strictly below body.
BelowBody(chain) ==
    LET stops == {i \in 1..Len(chain) : chain[i].body}
        k == IF stops = {} THEN Len(chain) + 1
             ELSE CHOOSE i \in stops : \A j \in stops : i <= j
    IN SubSeq(chain, 1, k - 1)

RECURSIVE ExpectedPath(_)
ExpectedPath(below) ==
    IF below = << >> THEN ""
    ELSE IF Len(below) = 1 THEN ExpectedSegment(below[1])
    ELSE ExpectedPath(Tail(below)) \o " > " \o ExpectedSegment(below[1])

\* C14: the path of an element is the segments of the element and its
\* ancestors strictly below body, root first, each tagname, then #id if
\* there is an id, then .c for each class, joined by " > "; body gives no
\* segment.
C14_PathFormat ==
    pathCall.done =>
        pathCall.result = ExpectedPath(BelowBody(pathCall.chain))

\* C15: when the host receives ELEMENT_SELECTED {text, classes, path} its
\* selection becomes (original text = text, path = path), its text buffer
\* text and its class buffer classes; when it receives ESCAPE_PRESSED the
\* selection is cleared and both buffers are emptied; either way the log, the
\* snapshot and the instance identity stay and nothing is sent to the
\* Renderer.
C15_HostReceive ==
    [][ReceiveFromFrame =>
           /\ Head(toHost).type = "ELEMENT_SELECTED" =>
                  /\ selectedElement'.set
                  /\ selectedElement'.originalText = Head(toHost).text
                  /\ selectedElement'.path = Head(toHost).path
                  /\ editingText' = Head(toHost).text
                  /\ tailwindClasses' = Head(toHost).classes
           /\ Head(toHost).type = "ESCAPE_PRESSED" =>
                  /\ ~selectedElement'.set
                  /\ editingText' = ""
                  /\ tailwindClasses' = << >>
           /\ UNCHANGED <<codeChanges, modifiedHtml, iframeKey, toFrame>>]_vars

\* ESCAPE_PRESSED was received after two edits: the selection is gone, the
\* buffers are empty, the log is still there.
C15_Witness ==
    /\ iframeKey = 0
    /\ Len(codeChanges) = 2
    /\ toHost = << >>
    /\ ~selectedElement.set
    /\ editingText = ""
    /\ tailwindClasses = << >>

\* What a click on t and a pointer-enter on t do to the hover target of each
\* listener set.
C16_ClickAndEnter ==
    \A t \in El :
        /\ Click(t) =>
               \A i \in 1..Len(scripts) :
                   /\ scripts'[i].hoverEl = NoEl
                   /\ scripts'[i].selectedEl = t
                   /\ scripts[i].hoverEl = t =>
                          scripts'[i].originalOutline
                              = scripts[i].originalHoverOutline
                   /\ (scripts[i].hoverEl \notin {NoEl, t}
                       /\ Len(scripts) = 1) =>
                          dom'[scripts[i].hoverEl].outline
                              = scripts[i].originalHoverOutline
        /\ MouseOver(t) =>
               \A i \in 1..Len(scripts) :
                   scripts[i].selectedEl = t =>
                       scripts'[i].hoverEl = scripts[i].hoverEl

C17_SingleInstance == Len(scripts) <= 1

\* C18: a click on an element of a document that holds the editor script
\* sends exactly one ELEMENT_SELECTED message with the text, the class
\* attribute and the path of that element as they are at the click; an
\* escape key sends exactly one ESCAPE_PRESSED when there is a selection and
\* changes nothing when there is none; hover events and UPDATE_* messages
\* send nothing to the host.
C18_OneMessagePerEvent ==
    [][/\ \A t \in El :
              (Click(t) /\ scripts # << >>) =>
                  toHost' = Append(toHost, SelectedMsg(dom, scriptTag, t))
       /\ (EscapeKey /\ \E i \in 1..Len(scripts) :
                            scripts[i].selectedEl # NoEl) =>
              toHost' = Append(toHost, EscapeMsg)
       /\ (EscapeKey /\ \A i \in 1..Len(scripts) :
                            scripts[i].selectedEl = NoEl) =>
              UNCHANGED vars
       /\ (MouseOut \/ DeliverToFrame \/ \E t \in El : MouseOver(t)) =>
              toHost' = toHost]_vars

\* The paths element e can have had since its document was loaded: its class
\* attribute is the loaded one or one a class edit gave it.
PathsOf(e) ==
    {GetElementPath([dom EXCEPT ![e].cls = c], e) :
         c \in {FreshEl(docKind, e).cls} \cup NewClasses}

\* The log entry of the edit whose message is next to reach the Renderer:
\* every edit appends one entry and posts one message.
MatchingEntry == codeChanges[Len(codeChanges) - Len(toFrame) + 1]

\* C19: an UPDATE_CLASSES that the script applies changes the element that
\* the host had selected when it issued the edit, that is the element whose
\* path the matching log entry names, whatever clicks happened in the
\* Renderer while the message was on its way.
C19_EditLandsOnRecorded ==
    [][(DeliverToFrame /\ Head(toFrame).type = "UPDATE_CLASSES") =>
           \A e \in El :
               dom'[e].cls # dom[e].cls =>
                   \E p \in PathsOf(e) :
                       MatchingEntry
                           = "Classes updated: \""
                             \o StrOf(Head(toFrame).classes)
                             \o "\" on " \o p]_vars

\* C20: when no message is in flight, no timer is pending and the document
\* has loaded, the host has a selection exactly if a listener set of the
\* current document has a selected element.
C20_SelectionInSync ==
    (/\ toFrame = << >> /\ toHost = << >>
     /\ injectTimers = 0 /\ extractTimers = 0 /\ writeTimers = << >>
     /\ ~loadPending) =>
        (selectedElement.set
         <=> \E i \in 1..Len(scripts) : scripts[i].selectedEl # NoEl)

\* C21: every log entry is for an edit the Renderer applies. An entry is
\* appended only while the host has a selection; the message of an edit is
\* not lost while its entry is in the log; and when it is delivered a
\* listener set has a selected element in the current document, which then
\* has the text or the class attribute of the message.
C21_EntryMeansEdit ==
    [][/\ Len(codeChanges') > Len(codeChanges) => selectedElement.set
       /\ (Len(toFrame') < Len(toFrame) /\ ~DeliverToFrame) =>
              codeChanges' = << >>
       /\ DeliverToFrame =>
              \E i \in 1..Len(scripts) :
                  LET e == scripts[i].selectedEl
                      m == Head(toFrame)
                  IN /\ e # NoEl
                     /\ dom'[e].attached
                     /\ m.type = "UPDATE_TEXT" => dom'[e].text = m.text
                     /\ m.type = "UPDATE_CLASSES" =>
                            dom'[e].cls = m.classes]_vars

====
